---- MODULE Spec2Model ----
(***************************************************************************)
(* Model of the two verification pipelines of the repository:              *)
(*   BSMVerification  (src/deepseek_python_20251224_19803d.py)             *)
(*   BSMCalculator    (src/src/bsm_calculator.py)                          *)
(* Each pipeline object owns a result cache (self.results); both classes   *)
(* set the module-level mpmath working precision mp.mp.dps in __init__.    *)
(*                                                                         *)
(* An mpf value is modelled as a decimal floating-point number             *)
(* [m |-> mantissa, x |-> exponent] (value m * 10^x) kept in canonical     *)
(* form (m not divisible by 10; zero is [m |-> 0, x |-> 0]).  Every        *)
(* arithmetic operation rounds its result to the number of significant     *)
(* digits the current mp.mp.dps gives.                                     *)
(***************************************************************************)
EXTENDS Integers, Sequences, FiniteSets, TLC

\* ------------------------------------------------------------------ bounds
\* largest precision (decimal digits) a constructor is called with
MaxPrec == 2
\* largest number of stage / run-all calls made in the process
MaxCalls == 2

\* ------------------------------------------------- decimal floating point
Pow10Table == <<10, 100, 1000, 10000, 100000, 1000000, 10000000,
                100000000, 1000000000>>

Pow10(k) == IF k <= 0 THEN 1 ELSE Pow10Table[k]

\* number of decimal digits of n, 0 <= n < 2^31
NDigits(n) ==
    IF n < 10000
    THEN IF n < 100 THEN (IF n < 10 THEN 1 ELSE 2)
         ELSE (IF n < 1000 THEN 3 ELSE 4)
    ELSE IF n < 1000000 THEN (IF n < 100000 THEN 5 ELSE 6)
    ELSE IF n < 100000000 THEN (IF n < 10000000 THEN 7 ELSE 8)
    ELSE IF n < 1000000000 THEN 9 ELSE 10

RECURSIVE Strip(_, _)
Strip(m, x) ==
    IF m = 0 THEN [m |-> 0, x |-> 0]
    ELSE IF m % 10 = 0 THEN Strip(m \div 10, x + 1)
    ELSE [m |-> m, x |-> x]

\* round the non-negative m * 10^x to D significant digits (half up)
Rnd(m, x, D) ==
    LET n == NDigits(m) IN
    IF n <= D THEN Strip(m, x)
    ELSE LET k == n - D
             q == m \div Pow10(k)
             r == m % Pow10(k)
         IN  Strip(q + (IF r >= Pow10(k) - r THEN 1 ELSE 0), x + k)

Neg(a) == [m |-> 0 - a.m, x |-> a.x]

AbsV(a) == IF a.m < 0 THEN Neg(a) ELSE a

RndS(m, x, D) == IF m < 0 THEN Neg(Rnd(0 - m, x, D)) ELSE Rnd(m, x, D)

\* mp.mpf('<literal>') created under D working digits; the literal is given
\* by its leading (at most nine) digits m and the exponent x of the last one
mpf(m, x, D) == RndS(m, x, D)

\* Strict(v, F) is F(v) with v evaluated once, before F is applied
Strict(v, F(_)) == CHOOSE r \in {F(x) : x \in {v}} : TRUE

AbsN(a) == Strict(a, LAMBDA v : AbsV(v))

Mul(a, b, D) ==
    Strict(<<a, b>>, LAMBDA p : RndS(p[1].m * p[2].m, p[1].x + p[2].x, D))

\* a / b for b # 0: the dividend is scaled to 2D+1 digits before the integer
\* division, so the quotient carries at least D+1 digits into the rounding
DivV(a, b, D) ==
    LET am == IF a.m < 0 THEN 0 - a.m ELSE a.m
        bm == IF b.m < 0 THEN 0 - b.m ELSE b.m
        s  == 2 * D + 1 - NDigits(am)
        q  == Rnd((am * Pow10(s)) \div bm, a.x - s - b.x, D)
    IN  IF (a.m < 0) = (b.m < 0) THEN q ELSE Neg(q)

Div(a, b, D) == Strict(<<a, b>>, LAMBDA p : DivV(p[1], p[2], D))

\* a - b: both are aligned to the smaller exponent; an operand more than
\* 2D digits below the other cannot change the D-digit result
SubV(a, b, D) ==
    IF a.m = 0 THEN Neg(b)
    ELSE IF b.m = 0 THEN a
    ELSE IF a.x - b.x > 2 * D THEN a
    ELSE IF b.x - a.x > 2 * D THEN Neg(b)
    ELSE LET lo == IF a.x < b.x THEN a.x ELSE b.x
         IN  RndS(a.m * Pow10(a.x - lo) - b.m * Pow10(b.x - lo), lo, D)

Sub(a, b, D) == Strict(<<a, b>>, LAMBDA p : SubV(p[1], p[2], D))

Add(a, b, D) == Sub(a, Neg(b), D)

One == [m |-> 1, x |-> 0]
Two == [m |-> 2, x |-> 0]

\* mpmath keeps one guard digit: dps_to_prec(n) = round((n + 1) * log2(10))
WorkDigits(dps) == dps + 1

\* ------------------------------------------- mpmath values under D digits
mp_e(D) == mpf(271828183, -8, D)
mp_pi(D) == mpf(314159265, -8, D)
mp_sqrt2(D) == mpf(141421356, -8, D)

\* mp.log(1 + e/pi): a constant expression, tabulated correctly rounded
mp_log_term(D) == mpf(623398298, -9, D)

\* the root mp.findroot(f, 1.0) returns when it converges: the unique zero of
\* f(T) = T*log(1 + e/pi) - (1 + e^(-pi*T) + epsilon), f being increasing
mp_findroot(D) == mpf(161417763, -8, D)

\* SU(3) colour count
N_c == 3

\* leading digits of the literals of the two files
epsilon_BSM_value(D) == mpf(4350917, -20, D)
G_target_value(D) == mpf(746603404, -10, D)
mu_value(D) == mpf(183615267, -5, D)
alpha_inv_CODATA_value(D) == mpf(137035999, -6, D)
m_e_eV(D) == mpf(51099895, -2, D)
gamma_mean(D) == mpf(214, -2, D)
c_light(D) == mpf(299792458, 0, D)
hbar_value(D) == mpf(105457182, -42, D)
G_CODATA_value(D) == mpf(667430, -16, D)
Gdot_over_G_value(D) == Neg(mpf(8, -13, D))
million == [m |-> 1, x |-> 6]

\* --------------------------------------------------- execution of a call
\* A call in progress is a record [res, err, log]: the cache self.results,
\* the exception that is propagating ("none" when there is none) and the
\* events so far: <<"enter", f>> a method is entered, <<"trigger", f>> a
\* compute-if-missing branch calls f, <<"findroot", r>> the root-finder ran,
\* <<"write", f>> f updated the cache, <<"print", h>> the driver printed
\* the header of section h.
Ev(st, kind, what) == [st EXCEPT !.log = Append(@, <<kind, what>>)]

Raise(st, e) == [st EXCEPT !.err = e]

Has(st, k) == k \in DOMAIN st.res

\* self.results.update(new) / self.results[k] = v
Update(st, new, f) == Ev([st EXCEPT !.res = new @@ @], "write", f)

\* int(-mp.log10(rel_error)): the logarithm of zero is -inf, and int() of an
\* infinity raises
SigDigitsFails(rel) == rel.m = 0

\* the statements F run on the call st unless an exception is propagating
Try(st, F(_)) == Strict(st, LAMBDA s : IF s.err # "none" THEN s ELSE F(s))

\* ---------------------------------------------------- BSMVerification
\* a variant that keeps the seed when the root-finder does not converge
V_verify_transcendental_equation_seed(st0, D, conv) ==
    Update(Ev(Ev(st0, "enter", "verify_transcendental_equation"),
              "findroot", IF conv THEN "converged" ELSE "failed"),
           [k \in {"epsilon_BSM", "T_eq", "log_term"} |->
               CASE k = "epsilon_BSM" -> epsilon_BSM_value(D)
                 [] k = "T_eq" -> IF conv THEN mp_findroot(D) ELSE One
                 [] OTHER -> mp_log_term(D)],
           "verify_transcendental_equation")

V_verify_transcendental_equation(st0, D, conv) ==
    IF ~conv
    THEN Raise(Ev(Ev(st0, "enter", "verify_transcendental_equation"),
                  "findroot", "failed"),
               "ConvergenceError")
    ELSE Update(Ev(Ev(st0, "enter", "verify_transcendental_equation"),
                   "findroot", "converged"),
                [k \in {"epsilon_BSM", "T_eq", "log_term"} |->
                    CASE k = "epsilon_BSM" -> epsilon_BSM_value(D)
                      [] k = "T_eq" -> mp_findroot(D)
                      [] OTHER -> mp_log_term(D)],
                "verify_transcendental_equation")

GeomCoupling(T_eq, D) ==
    Div(One, Mul(Mul(Mul(mp_e(D), mp_pi(D), D), mp_sqrt2(D), D), T_eq, D), D)

\* the statements of verify_geometric_coupling after its compute-if-missing
\* branch: T_eq is read from the cache, three keys are assigned
V_geometric_store(s1, D) ==
    IF ~Has(s1, "T_eq") THEN Raise(s1, "KeyError")
    ELSE LET G == GeomCoupling(s1.res["T_eq"], D)
             G_target == G_target_value(D)
         IN  Update(s1,
                    [k \in {"G", "G_target", "G_error"} |->
                        CASE k = "G" -> G
                          [] k = "G_target" -> G_target
                          [] OTHER -> AbsN(Sub(G, G_target, D))],
                    "verify_geometric_coupling")

\* a variant without the compute-if-missing branch
V_verify_geometric_coupling_eager(st0, D, conv) ==
    Strict(Ev(st0, "enter", "verify_geometric_coupling"),
           LAMBDA st : V_geometric_store(st, D))

V_verify_geometric_coupling(st0, D, conv) ==
    Strict(Ev(st0, "enter", "verify_geometric_coupling"),
           LAMBDA st :
               Try(IF ~Has(st, "T_eq")
                   THEN V_verify_transcendental_equation(
                            Ev(st, "trigger", "verify_transcendental_equation"),
                            D, conv)
                   ELSE st,
                   LAMBDA s1 : V_geometric_store(s1, D)))

ZdcValues(G, D) ==
    LET pred  == Mul(mu_value(D), G, D)
        ref   == alpha_inv_CODATA_value(D)
        error == AbsN(Sub(pred, ref, D))
    IN  [k \in {"alpha_inv_pred", "alpha_inv_CODATA", "zdc_error", "zdc_rel_error"} |->
            CASE k = "alpha_inv_pred" -> pred
              [] k = "alpha_inv_CODATA" -> ref
              [] k = "zdc_error" -> error
              [] OTHER -> Div(error, ref, D)]

\* the statements of verify_zdc after its compute-if-missing branch
V_zdc_store(s1, D) ==
    IF ~Has(s1, "G") THEN Raise(s1, "KeyError")
    ELSE Update(s1, ZdcValues(s1.res["G"], D), "verify_zdc")

V_verify_zdc(st0, D, conv) ==
    Strict(Ev(st0, "enter", "verify_zdc"),
           LAMBDA st :
               Try(IF ~Has(st, "G")
                   THEN V_verify_geometric_coupling(
                            Ev(st, "trigger", "verify_geometric_coupling"),
                            D, conv)
                   ELSE st,
                   LAMBDA s1 : V_zdc_store(s1, D)))

\* the gyroscopic factor of verify_qcd_scale: term1 * ... * term5
V_C_gyro(D) ==
    LET e == mp_e(D)
        term1 == Div(One, Mul(Two, mp_sqrt2(D), D), D)
        term2 == Div(Sub(e, One, D), Add(e, One, D), D)
        term3 == Div(One, mp_log_term(D), D)
        term4 == Div([m |-> N_c * N_c - 1, x |-> 0], [m |-> 2 * N_c, x |-> 0], D)
        term5 == gamma_mean(D)
    IN  Mul(Mul(Mul(Mul(term1, term2, D), term3, D), term4, D), term5, D)

\* (m_e_eV / alpha) * C_gyro / 1e6 with alpha = 1 / alpha_inv
QcdBare(alpha_inv, C_gyro, D) ==
    Div(Mul(Div(m_e_eV(D), Div(One, alpha_inv, D), D), C_gyro, D), million, D)

\* mp.exp(2*pi/(b0*(1/alpha_s_L - 1/alpha_s_1GeV))), b0 = 9, alpha_s = 1.0, 0.45:
\* a constant expression, tabulated correctly rounded
V_rg_factor(D) == mpf(564847970, -9, D)

\* the three values of the update, from the gyroscopic factor and the bare scale
V_qcd_values(C_gyro, bare, D) ==
    [k \in {"C_gyro", "Lambda_QCD_bare", "Lambda_QCD_1GeV"} |->
        CASE k = "C_gyro" -> C_gyro
          [] k = "Lambda_QCD_bare" -> bare
          [] OTHER -> Mul(bare, V_rg_factor(D), D)]

\* a variant of the update that leaves the bare scale out
V_qcd_update_no_bare(D) ==
    Strict(V_C_gyro(D), LAMBDA C_gyro :
        Strict(QcdBare(alpha_inv_CODATA_value(D), C_gyro, D), LAMBDA bare :
            [k \in {"C_gyro", "Lambda_QCD_1GeV"} |->
                V_qcd_values(C_gyro, bare, D)[k]]))

\* what verify_qcd_scale stores: the fine-structure constant is the CODATA
\* literal alpha_inv = 137.035999084, nothing is read from the cache
V_qcd_update(D) ==
    Strict(V_C_gyro(D), LAMBDA C_gyro :
        Strict(QcdBare(alpha_inv_CODATA_value(D), C_gyro, D), LAMBDA bare :
            V_qcd_values(C_gyro, bare, D)))

V_verify_qcd_scale(st0, D, conv) ==
    Strict(Ev(st0, "enter", "verify_qcd_scale"),
           LAMBDA st :
               Try(IF ~Has(st, "G")
                   THEN V_verify_geometric_coupling(
                            Ev(st, "trigger", "verify_geometric_coupling"),
                            D, conv)
                   ELSE st,
                   LAMBDA s1 : Update(s1, V_qcd_update(D), "verify_qcd_scale")))

\* M_s = (hbar/c) * (pi/sqrt2) * (1/(G*T_eq))
SubstrateMass(G, T_eq, D) ==
    Mul(Mul(Div(hbar_value(D), c_light(D), D), Div(mp_pi(D), mp_sqrt2(D), D), D),
        Div(One, Mul(G, T_eq, D), D), D)

\* G_pred = (c**3/hbar) * (G**2/M_s**2)
GravPred(G, M_s, D) ==
    LET c == c_light(D) IN
    Mul(Div(Mul(Mul(c, c, D), c, D), hbar_value(D), D),
        Div(Mul(G, G, D), Mul(M_s, M_s, D), D), D)

\* the statements of verify_gravitational_constant after its
\* compute-if-missing branch
V_gravitational_store(s1, D) ==
    IF ~(Has(s1, "G") /\ Has(s1, "T_eq")) THEN Raise(s1, "KeyError")
    ELSE Strict(SubstrateMass(s1.res["G"], s1.res["T_eq"], D), LAMBDA M_s :
             Update(s1,
                    [k \in {"M_s", "G_pred", "G_CODATA", "Gdot_over_G"} |->
                        CASE k = "M_s" -> M_s
                          [] k = "G_pred" -> GravPred(s1.res["G"], M_s, D)
                          [] k = "G_CODATA" -> G_CODATA_value(D)
                          [] OTHER -> Gdot_over_G_value(D)],
                    "verify_gravitational_constant"))

V_verify_gravitational_constant(st0, D, conv) ==
    Strict(Ev(st0, "enter", "verify_gravitational_constant"),
           LAMBDA st :
               Try(IF ~Has(st, "G")
                   THEN V_verify_geometric_coupling(
                            Ev(st, "trigger", "verify_geometric_coupling"),
                            D, conv)
                   ELSE st,
                   LAMBDA s1 : V_gravitational_store(s1, D)))

\* the driver prints a section header before each stage call
Header(st, h) == Ev(st, "print", h)

\* the driver prints self.results[k] for the keys ks after a stage returned
PrintKeys(st, ks) ==
    Try(st, LAMBDA s : IF ~(ks \subseteq DOMAIN s.res)
                       THEN Raise(s, "KeyError")
                       ELSE s)

\* print(f"Significant digits = {int(-mp.log10(self.results['zdc_rel_error']))}")
PrintSigDigits(st) ==
    Try(st, LAMBDA s :
        IF ~Has(s, "zdc_rel_error") THEN Raise(s, "KeyError")
        ELSE IF SigDigitsFails(s.res["zdc_rel_error"])
        THEN Raise(s, "MathDomainError")
        ELSE s)

\* one section of the report: its header, the stage call, the lines printed
\* from the cache afterwards
V_section(f, st, D, conv) ==
    CASE f = "verify_transcendental_equation" ->
             V_verify_transcendental_equation(
                 Header(st, "1. TRANSCENDENTAL EQUATION WITH QUANTUM CORRECTION"),
                 D, conv)
      [] f = "verify_geometric_coupling" ->
             PrintKeys(V_verify_geometric_coupling(
                           Header(st, "2. GEOMETRIC COUPLING"), D, conv),
                       {"G_error"})
      [] f = "verify_zdc" ->
             PrintSigDigits(V_verify_zdc(
                 Header(st, "3. ZERO DISCREPANCY CONDITION (ZDC)"), D, conv))
      [] f = "verify_qcd_scale" ->
             PrintKeys(V_verify_qcd_scale(
                           Header(st, "4. QCD CONFINEMENT SCALE"), D, conv),
                       {"C_gyro", "Lambda_QCD_bare"})
      [] f = "verify_gravitational_constant" ->
             PrintKeys(V_verify_gravitational_constant(
                           Header(st, "5. GRAVITATIONAL CONSTANT AND VARIATION"),
                           D, conv),
                       {"M_s", "G_CODATA"})

\* a variant of the driver's order with the ZDC section first
V_order_zdc_first ==
    <<"verify_zdc", "verify_transcendental_equation",
      "verify_geometric_coupling", "verify_qcd_scale",
      "verify_gravitational_constant">>

\* the order in which run_all_verifications runs the sections
V_order ==
    <<"verify_transcendental_equation", "verify_geometric_coupling",
      "verify_zdc", "verify_qcd_scale", "verify_gravitational_constant">>

\* the sections order[n], order[n+1], ... one after the other; an exception
\* ends the run
RECURSIVE V_sections(_, _, _, _, _)
V_sections(order, n, st, D, conv) ==
    IF n > Len(order) THEN st
    ELSE Try(V_section(order[n], st, D, conv),
             LAMBDA s : V_sections(order, n + 1, s, D, conv))

V_run_all_verifications(st0, D, conv) ==
    Try(V_sections(V_order, 1, st0, D, conv),
        LAMBDA e : Ev(e, "return", "run_all_verifications"))

\* ------------------------------------------------------ BSMCalculator
C_compute_geometric_factors(st0, D, conv) ==
    IF ~conv
    THEN Raise(Ev(Ev(st0, "enter", "compute_geometric_factors"),
                  "findroot", "failed"),
               "ConvergenceError")
    ELSE Update(Ev(Ev(st0, "enter", "compute_geometric_factors"),
                   "findroot", "converged"),
                [k \in {"T_eq", "G", "epsilon_BSM"} |->
                    CASE k = "T_eq" -> mp_findroot(D)
                      [] k = "G" -> GeomCoupling(mp_findroot(D), D)
                      [] OTHER -> epsilon_BSM_value(D)],
                "compute_geometric_factors")

\* the statements of verify_zdc after its compute-if-missing branch: the
\* cache is updated before the report lines are printed
C_zdc_store(s1, D) ==
    IF ~Has(s1, "G") THEN Raise(s1, "KeyError")
    ELSE Strict(ZdcValues(s1.res["G"], D), LAMBDA vals :
             IF SigDigitsFails(vals["zdc_rel_error"])
             THEN Raise(Update(s1, ("mu" :> mu_value(D)) @@ vals, "verify_zdc"),
                        "MathDomainError")
             ELSE Update(s1, ("mu" :> mu_value(D)) @@ vals, "verify_zdc"))

C_verify_zdc(st0, D, conv) ==
    Strict(Ev(st0, "enter", "verify_zdc"),
           LAMBDA st :
               Try(IF ~Has(st, "G")
                   THEN C_compute_geometric_factors(
                            Ev(st, "trigger", "compute_geometric_factors"),
                            D, conv)
                   ELSE st,
                   LAMBDA s1 : C_zdc_store(s1, D)))

\* C_gyro = (1/(2*sqrt2)) * ((e-1)/(e+1)) / log(1 + e/pi)
\* C_gyro *= (N_c**2 - 1)/(2*N_c) * gamma_mean
C_C_gyro(D) ==
    LET e == mp_e(D)
        first == Div(Mul(Div(One, Mul(Two, mp_sqrt2(D), D), D),
                         Div(Sub(e, One, D), Add(e, One, D), D), D),
                     mp_log_term(D), D)
        colour == Div([m |-> N_c * N_c - 1, x |-> 0], [m |-> 2 * N_c, x |-> 0], D)
    IN  Mul(first, Mul(colour, gamma_mean(D), D), D)

\* mp.exp(2*pi/(b0 * 2)), b0 = 9: a constant expression, tabulated
C_rg_factor(D) == mpf(141774255, -8, D)

\* a variant that takes the CODATA literal instead of the cached prediction
C_qcd_alpha_inv_literal(st, D) == alpha_inv_CODATA_value(D)

\* the inverse fine-structure constant compute_qcd_scale scales by:
\* self.results['alpha_inv_pred']
C_qcd_alpha_inv(st, D) == st.res["alpha_inv_pred"]

\* the statements of compute_qcd_scale after its compute-if-missing branch
C_qcd_store(s1, D) ==
    IF ~Has(s1, "alpha_inv_pred") THEN Raise(s1, "KeyError")
    ELSE Strict(C_C_gyro(D), LAMBDA C_gyro :
         Strict(QcdBare(C_qcd_alpha_inv(s1, D), C_gyro, D), LAMBDA bare :
             Update(s1,
                    [k \in {"Lambda_QCD_bare", "Lambda_QCD_1GeV", "C_gyro"} |->
                        CASE k = "C_gyro" -> C_gyro
                          [] k = "Lambda_QCD_bare" -> bare
                          [] OTHER -> Mul(bare, C_rg_factor(D), D)],
                    "compute_qcd_scale")))

C_compute_qcd_scale(st0, D, conv) ==
    Strict(Ev(st0, "enter", "compute_qcd_scale"),
           LAMBDA st :
               Try(IF ~Has(st, "alpha_inv_pred")
                   THEN C_verify_zdc(Ev(st, "trigger", "verify_zdc"), D, conv)
                   ELSE st,
                   LAMBDA s1 : C_qcd_store(s1, D)))

\* the statements of compute_gravitational_constant after its
\* compute-if-missing branch
C_gravitational_store(s1, D) ==
    IF ~(Has(s1, "G") /\ Has(s1, "T_eq")) THEN Raise(s1, "KeyError")
    ELSE Strict(SubstrateMass(s1.res["G"], s1.res["T_eq"], D), LAMBDA M_s :
             Update(s1,
                    [k \in {"G_pred", "Gdot_over_G", "M_s"} |->
                        CASE k = "M_s" -> M_s
                          [] k = "G_pred" -> GravPred(s1.res["G"], M_s, D)
                          [] OTHER -> Gdot_over_G_value(D)],
                    "compute_gravitational_constant"))

C_compute_gravitational_constant(st0, D, conv) ==
    Strict(Ev(st0, "enter", "compute_gravitational_constant"),
           LAMBDA st :
               Try(IF ~Has(st, "G")
                   THEN C_compute_geometric_factors(
                            Ev(st, "trigger", "compute_geometric_factors"),
                            D, conv)
                   ELSE st,
                   LAMBDA s1 : C_gravitational_store(s1, D)))

C_section(f, st, D, conv) ==
    CASE f = "compute_geometric_factors" ->
             C_compute_geometric_factors(
                 Header(st, "1. Computing geometric factors..."), D, conv)
      [] f = "verify_zdc" ->
             C_verify_zdc(
                 Header(st, "2. Verifying Zero Discrepancy Condition..."), D, conv)
      [] f = "compute_qcd_scale" ->
             C_compute_qcd_scale(
                 Header(st, "3. Calculating QCD confinement scale..."), D, conv)
      [] f = "compute_gravitational_constant" ->
             C_compute_gravitational_constant(
                 Header(st, "4. Computing gravitational constant..."), D, conv)

\* a variant of the driver's order that leaves the last stage out
C_order_short ==
    <<"compute_geometric_factors", "verify_zdc", "compute_qcd_scale">>

\* the order in which run_complete_analysis runs the stages
C_order ==
    <<"compute_geometric_factors", "verify_zdc", "compute_qcd_scale",
      "compute_gravitational_constant">>

RECURSIVE C_sections(_, _, _, _, _)
C_sections(order, n, st, D, conv) ==
    IF n > Len(order) THEN st
    ELSE Try(C_section(order[n], st, D, conv),
             LAMBDA s : C_sections(order, n + 1, s, D, conv))

C_run_complete_analysis(st0, D, conv) ==
    Try(C_sections(C_order, 1, st0, D, conv),
        LAMBDA d : Ev(d, "return", "run_complete_analysis"))

\* ------------------------------------------------------- state machine
\* one Python process runs one of the two files and holds two pipeline
\* objects: "p" is the one constructed first, "q" the one constructed second
Instances == {"p", "q"}
Classes == {"BSMVerification", "BSMCalculator"}
Precisions == 1..MaxPrec

VARIABLES
    program,    \* the class the process uses: the file that is run
    diverges,   \* the precisions at which mp.findroot does not converge
    dps,        \* mp.mp.dps, the module-level working precision of mpmath
    alive,      \* per object: TRUE once its constructor has run
    precision,  \* per object: the precision argument of its constructor
    results,    \* per object: self.results
    calls,      \* number of method calls made so far
    returned,   \* per object: the caches its completed run-all calls returned
    last        \* the most recent operation: object, method, the cache before
                \* (pre) and after (res), the dps it ran under, the exception
                \* it ended with and its events

vars == <<program, diverges, dps, alive, precision, results, calls, returned, last>>

\* self.results = {}
Empty == [k \in {} |-> 0]

Init ==
    /\ program \in Classes
    /\ diverges \in SUBSET Precisions
    /\ dps = 15    \* mpmath's default until a constructor sets it
    /\ alive = [i \in Instances |-> FALSE]
    /\ precision = [i \in Instances |-> 0]
    /\ results = [i \in Instances |-> Empty]
    /\ calls = 0
    /\ returned = [i \in Instances |-> <<>>]
    /\ last = [inst |-> "none", op |-> "none", pre |-> Empty, dps |-> 15,
               res |-> Empty, err |-> "none", log |-> <<>>]

\* __init__(self, precision): mp.mp.dps = precision; self.results = {}
Construct(i, p) ==
    /\ ~alive[i]
    /\ i = "q" => alive["p"]
    /\ alive' = [alive EXCEPT ![i] = TRUE]
    /\ precision' = [precision EXCEPT ![i] = p]
    /\ dps' = p
    /\ results' = [results EXCEPT ![i] = Empty]
    /\ last' = [inst |-> i, op |-> "__init__", pre |-> Empty, dps |-> p,
                res |-> Empty, err |-> "none", log |-> <<>>]
    /\ UNCHANGED <<program, diverges, calls, returned>>

Drivers == {"run_all_verifications", "run_complete_analysis"}

\* the method named op of class k, run on the cache res under the current dps
Exec(k, op, res) ==
    LET st0  == [res |-> res, err |-> "none", log |-> <<>>]
        D    == WorkDigits(dps)
        conv == dps \notin diverges
    IN  CASE k = "BSMVerification" /\ op = "verify_transcendental_equation" ->
                 V_verify_transcendental_equation(st0, D, conv)
          [] k = "BSMVerification" /\ op = "verify_geometric_coupling" ->
                 V_verify_geometric_coupling(st0, D, conv)
          [] k = "BSMVerification" /\ op = "verify_zdc" ->
                 V_verify_zdc(st0, D, conv)
          [] k = "BSMVerification" /\ op = "verify_qcd_scale" ->
                 V_verify_qcd_scale(st0, D, conv)
          [] k = "BSMVerification" /\ op = "verify_gravitational_constant" ->
                 V_verify_gravitational_constant(st0, D, conv)
          [] k = "BSMVerification" /\ op = "run_all_verifications" ->
                 V_run_all_verifications(st0, D, conv)
          [] k = "BSMCalculator" /\ op = "compute_geometric_factors" ->
                 C_compute_geometric_factors(st0, D, conv)
          [] k = "BSMCalculator" /\ op = "verify_zdc" ->
                 C_verify_zdc(st0, D, conv)
          [] k = "BSMCalculator" /\ op = "compute_qcd_scale" ->
                 C_compute_qcd_scale(st0, D, conv)
          [] k = "BSMCalculator" /\ op = "compute_gravitational_constant" ->
                 C_compute_gravitational_constant(st0, D, conv)
          [] k = "BSMCalculator" /\ op = "run_complete_analysis" ->
                 C_run_complete_analysis(st0, D, conv)

\* one synchronous method call on object i; a driver that returns hands back
\* self.results
Call(i, k, op) ==
    /\ program = k
    /\ alive[i]
    /\ calls < MaxCalls
    /\ last' = [inst |-> i, op |-> op, pre |-> results[i], dps |-> dps]
                  @@ Exec(k, op, results[i])
    /\ results' = [results EXCEPT ![i] = last'.res]
    /\ returned' = IF op \in Drivers /\ last'.err = "none"
                   THEN [returned EXCEPT ![i] = Append(@, last'.res)]
                   ELSE returned
    /\ calls' = calls + 1
    /\ UNCHANGED <<program, diverges, dps, alive, precision>>

VTranscendental == \E i \in Instances :
    Call(i, "BSMVerification", "verify_transcendental_equation")
VGeometric == \E i \in Instances :
    Call(i, "BSMVerification", "verify_geometric_coupling")
VZdc == \E i \in Instances : Call(i, "BSMVerification", "verify_zdc")
VQcd == \E i \in Instances : Call(i, "BSMVerification", "verify_qcd_scale")
VGravitational == \E i \in Instances :
    Call(i, "BSMVerification", "verify_gravitational_constant")
VRunAll == \E i \in Instances :
    Call(i, "BSMVerification", "run_all_verifications")
CGeometric == \E i \in Instances :
    Call(i, "BSMCalculator", "compute_geometric_factors")
CZdc == \E i \in Instances : Call(i, "BSMCalculator", "verify_zdc")
CQcd == \E i \in Instances : Call(i, "BSMCalculator", "compute_qcd_scale")
CGravitational == \E i \in Instances :
    Call(i, "BSMCalculator", "compute_gravitational_constant")
CRunAll == \E i \in Instances :
    Call(i, "BSMCalculator", "run_complete_analysis")
New == \E i \in Instances, p \in Precisions : Construct(i, p)

Next ==
    \/ New
    \/ VTranscendental
    \/ VGeometric
    \/ VZdc
    \/ VQcd
    \/ VGravitational
    \/ VRunAll
    \/ CGeometric
    \/ CZdc
    \/ CQcd
    \/ CGravitational
    \/ CRunAll

Spec == Init /\ [][Next]_vars

\* ------------------------------------------------------------ properties
IsCall == last.op \notin {"none", "__init__"}
LogIdx == 1..Len(last.log)
Occurs(kind, what) == \E n \in LogIdx : last.log[n] = <<kind, what>>
Count(kind) == Cardinality({n \in LogIdx : last.log[n][1] = kind})
Entered == {last.log[n][2] : n \in {j \in LogIdx : last.log[j][1] = "enter"}}
NoStageEnteredTwice ==
    \A a, b \in LogIdx :
        (a < b /\ last.log[a][1] = "enter" /\ last.log[b][1] = "enter")
            => last.log[a][2] # last.log[b][2]
QcdOps == {"verify_qcd_scale", "compute_qcd_scale"}
QcdKeys == {"C_gyro", "Lambda_QCD_bare", "Lambda_QCD_1GeV"}
UpstreamKeys ==
    {"epsilon_BSM", "T_eq", "log_term", "G", "G_target", "G_error", "mu",
     "alpha_inv_pred", "alpha_inv_CODATA", "zdc_error", "zdc_rel_error"}
SubTermKeys == {"term1", "term2", "term3", "term4", "term5"}
\* the key whose absence makes a stage call the upstream method f
TriggerKey(f) ==
    CASE f = "verify_transcendental_equation" -> "T_eq"
      [] f = "verify_zdc" -> "alpha_inv_pred"
      [] OTHER -> "G"
StagesOf(k) ==
    IF k = "BSMVerification"
    THEN {"verify_transcendental_equation", "verify_geometric_coupling",
          "verify_zdc", "verify_qcd_scale", "verify_gravitational_constant"}
    ELSE {"compute_geometric_factors", "verify_zdc", "compute_qcd_scale",
          "compute_gravitational_constant"}

\* C1: in every method call, on every reachable cache, no read of the cache
\* misses its key (no KeyError), an upstream stage is triggered only for a
\* key absent from the cache, and the on-demand chain enters no method twice,
\* so it ends after at most two upstream calls.
C1_LazyResolution ==
    IsCall =>
        /\ last.err # "KeyError"
        /\ NoStageEnteredTwice
        /\ Count("trigger") <= Cardinality(StagesOf(program)) - 1
        /\ \A n \in LogIdx :
               last.log[n][1] = "trigger" =>
                   TriggerKey(last.log[n][2]) \notin DOMAIN last.pre

\* C1 witness: the gravitational stage called on an empty cache pulled two
\* upstream stages in and completed.
C1_Witness ==
    /\ last.op = "verify_gravitational_constant"
    /\ last.pre = Empty
    /\ last.err = "none"
    /\ Occurs("trigger", "verify_geometric_coupling")
    /\ Occurs("trigger", "verify_transcendental_equation")

\* C2 (as claimed): a method call never changes the value stored under a key
\* that was already in the object's cache, and removes no key.
C2_SingleAssignment ==
    IsCall =>
        \A k \in DOMAIN last.pre :
            k \in DOMAIN last.res /\ last.res[k] = last.pre[k]

\* C3 (as claimed): every method call of an object runs under the precision
\* the object was constructed with.
C3_InstanceIsolation == IsCall => last.dps = precision[last.inst]

\* C4 (as claimed): after the QCD stage completes, the five sub-terms of
\* C_gyro and both scales are each in the cache under a key of their own.
C4_SubTermsStored ==
    (last.op \in QcdOps /\ last.err = "none") =>
        (SubTermKeys \cup {"Lambda_QCD_bare", "Lambda_QCD_1GeV"})
            \subseteq DOMAIN last.res

\* C4 (amended): after the QCD stage completes, the cache holds C_gyro, the
\* bare scale and the scale at 1 GeV under their own keys; the stage adds no
\* other key, so the five sub-terms are not stored individually.
C4_QcdScalesStored ==
    (last.op \in QcdOps /\ last.err = "none") =>
        /\ QcdKeys \subseteq DOMAIN last.res
        /\ DOMAIN last.res \subseteq (DOMAIN last.pre \cup UpstreamKeys \cup QcdKeys)
        /\ DOMAIN last.res \cap SubTermKeys = {}

\* C4 witness: verify_qcd_scale completed on an empty cache.
C4_Witness ==
    last.op = "verify_qcd_scale" /\ last.pre = Empty /\ last.err = "none"

ListedKeys ==
    {"T_eq", "epsilon_BSM", "G", "G_error", "alpha_inv_pred", "alpha_inv_CODATA",
     "zdc_error", "zdc_rel_error", "C_gyro", "Lambda_QCD_bare",
     "Lambda_QCD_1GeV", "M_s", "G_pred", "Gdot_over_G"}

\* C6 (as claimed): a run-all on a fresh pipeline returns a cache holding
\* every listed quantity, the deviation of the geometric coupling from its
\* target included.
C6_AllQuantities ==
    (last.op \in Drivers /\ last.pre = Empty /\ last.err = "none") =>
        ListedKeys \subseteq DOMAIN last.res

\* C6 (amended): a run-all on a fresh pipeline that returns hands back the
\* object's cache; for BSMVerification it holds every listed quantity, for
\* BSMCalculator every listed quantity except the deviation of the geometric
\* coupling from its target, which that class never stores.
C6_ReturnedCache ==
    (last.op \in Drivers /\ last.pre = Empty /\ last.err = "none") =>
        /\ Len(returned[last.inst]) > 0
        /\ returned[last.inst][Len(returned[last.inst])] = results[last.inst]
        /\ IF program = "BSMVerification"
           THEN ListedKeys \subseteq DOMAIN results[last.inst]
           ELSE /\ (ListedKeys \ {"G_error"}) \subseteq DOMAIN results[last.inst]
                /\ "G_error" \notin DOMAIN results[last.inst]

\* C6 witness: run_complete_analysis returned on a fresh BSMCalculator.
C6_Witness ==
    /\ program = "BSMCalculator"
    /\ last.op = "run_complete_analysis"
    /\ last.pre = Empty
    /\ last.err = "none"

\* C7 (as claimed): any two completed run-all calls on objects configured
\* with the same precision (the same object twice, or two objects) returned
\* identical caches.
C7_Determinism ==
    \A i, j \in Instances :
        precision[i] = precision[j] =>
            \A m \in 1..Len(returned[i]), n \in 1..Len(returned[j]) :
                returned[i][m] = returned[j][n]

\* C8: a run-all whose root-finder does not converge ends with the
\* convergence error propagating out of the driver; the cache is left as it
\* was (no T_eq or other write), the only section header printed is the one
\* of the failing stage, and nothing runs after the failure.
C8_ConvergenceFatal ==
    (last.op \in Drivers /\ Occurs("findroot", "failed")) =>
        /\ last.err = "ConvergenceError"
        /\ last.res = last.pre
        /\ results[last.inst] = last.pre
        /\ Count("write") = 0
        /\ Count("return") = 0
        /\ Count("print") = 1
        /\ Count("enter") = 1
        /\ last.log[Len(last.log)] = <<"findroot", "failed">>

\* C8 witness: a run-all ended with the convergence error.
C8_Witness == last.op \in Drivers /\ last.err = "ConvergenceError"

\* C9 (as claimed): the QCD stage scales by the predicted alpha inverse of
\* the cache, running the zero-discrepancy stage first when it is missing.
C9_QcdUsesDerivedAlpha ==
    (last.op \in QcdOps /\ last.err = "none") =>
        /\ "alpha_inv_pred" \in DOMAIN last.res
        /\ last.res["Lambda_QCD_bare"] =
               QcdBare(last.res["alpha_inv_pred"], last.res["C_gyro"],
                       WorkDigits(last.dps))
        /\ "alpha_inv_pred" \notin DOMAIN last.pre => Occurs("trigger", "verify_zdc")

WritePos(f) == CHOOSE n \in LogIdx : last.log[n] = <<"write", f>>

\* C9 (amended): in BSMCalculator the QCD stage scales by the cached
\* predicted alpha inverse, runs the zero-discrepancy stage first when that
\* value is missing, and the prediction is written before the bare scale; in
\* BSMVerification the QCD stage scales by the CODATA literal, never runs
\* the zero-discrepancy stage and triggers only the geometric-coupling stage.
C9_QcdAlphaSource ==
    (last.op \in QcdOps /\ last.err = "none") =>
        IF program = "BSMCalculator"
        THEN /\ "alpha_inv_pred" \in DOMAIN last.res
             /\ last.res["Lambda_QCD_bare"] =
                    QcdBare(last.res["alpha_inv_pred"], last.res["C_gyro"],
                            WorkDigits(last.dps))
             /\ "alpha_inv_pred" \notin DOMAIN last.pre =>
                    /\ Occurs("trigger", "verify_zdc")
                    /\ Occurs("write", "verify_zdc")
                    /\ WritePos("verify_zdc") < WritePos("compute_qcd_scale")
        ELSE /\ last.res["Lambda_QCD_bare"] =
                    QcdBare(alpha_inv_CODATA_value(WorkDigits(last.dps)),
                            last.res["C_gyro"], WorkDigits(last.dps))
             /\ "verify_zdc" \notin Entered
             /\ "G" \notin DOMAIN last.pre =>
                    Occurs("trigger", "verify_geometric_coupling")

\* C9 witness: compute_qcd_scale completed on a cache without the predicted
\* alpha inverse.
C9_Witness ==
    /\ last.op = "compute_qcd_scale"
    /\ last.err = "none"
    /\ "alpha_inv_pred" \notin DOMAIN last.pre

\* C10: during a run-all on a fresh pipeline no compute-if-missing branch
\* fires, no stage is entered twice and the root-finder runs at most once;
\* a run that returns entered and wrote every stage exactly once.
C10_DriverOrder ==
    (last.op \in Drivers /\ last.pre = Empty) =>
        /\ Count("trigger") = 0
        /\ NoStageEnteredTwice
        /\ Count("findroot") <= 1
        /\ last.err = "none" =>
               /\ Entered = StagesOf(program)
               /\ Count("enter") = Cardinality(StagesOf(program))
               /\ Count("write") = Cardinality(StagesOf(program))
               /\ Count("findroot") = 1

\* C10 witness: a run-all on a fresh pipeline returned.
C10_Witness ==
    last.op \in Drivers /\ last.pre = Empty /\ last.err = "none"

====
